---- MODULE Spec2Model ----
(***************************************************************************)
(* FlightOps Pulse Pipeline (src/pipeline.py): FlightOpsDataPipeline.      *)
(*                                                                         *)
(* The pipeline object is a state machine: run() calls ingest_data,        *)
(* cleanse_data, calculate_metrics, persist_to_mysql and export_metrics in *)
(* sequence; each step reads and assigns instance attributes (df_raw,      *)
(* df_clean, metrics).  Each step is one action.  The report emitters of  *)
(* src/scripts read the exported snapshot; each is one action.             *)
(*                                                                         *)
(* Encoding of values.                                                     *)
(*   - A CSV cell is text.  An empty cell is "".                           *)
(*   - In a DataFrame an object (string) column holds text, a missing      *)
(*     value is NA.  A numeric column holds integers, a missing value is   *)
(*     NaN.  A datetime column holds minutes since 2024-01-01 00:00, a     *)
(*     missing value is NaT.                                               *)
(*   - Metric values that the code rounds to 2 decimals are held in        *)
(*     hundredths (1500 is 15.0); float('nan') is NaN.                     *)
(***************************************************************************)
EXTENDS Integers, Sequences, FiniteSets, TLC

VARIABLES csv_columns, csv_rows, df_raw, fare_dtype, df_clean, audit,
          metrics, db, exported, pc, steps, result, emitted

vars == <<csv_columns, csv_rows, df_raw, fare_dtype, df_clean, audit,
          metrics, db, exported, pc, steps, result, emitted>>

(***************************************************************************)
(* Bounds of the model.                                                    *)
(***************************************************************************)
MaxRows == 2
MaxMetricRows == 3
MaxRouteRows == 4
MaxRevenueRows == 3
MaxDelayRows == 2

(***************************************************************************)
(* Missing values.                                                         *)
(***************************************************************************)
NA == "NaN"
NaT == -1
NaN == -999999

(***************************************************************************)
(* Program constants.                                                      *)
(***************************************************************************)
required_cols == {"flight_id", "aircraft_id", "origin", "destination",
                  "scheduled_departure", "actual_departure",
                  "scheduled_arrival", "actual_arrival",
                  "status", "delay_minutes", "fare_usd"}

TopRoutesN == 3
TopAircraftN == 2

(***************************************************************************)
(* Generic helpers on sequences.                                           *)
(***************************************************************************)
Range(s) == {s[i] : i \in DOMAIN s}

SeqsUpTo(S, n) == UNION {[1..k -> S] : k \in 0..n}

Head_n(s, n) == IF Len(s) <= n THEN s ELSE SubSeq(s, 1, n)

\* The rows of s at the positions where keep(i) holds, in order.
RECURSIVE Pick(_, _, _)
Pick(s, mask, i) ==
    IF i > Len(s) THEN <<>>
    ELSE IF mask[i] THEN <<s[i]>> \o Pick(s, mask, i + 1)
         ELSE Pick(s, mask, i + 1)

Filter(s, mask) == Pick(s, mask, 1)

CountTrue(mask) == Cardinality({i \in DOMAIN mask : mask[i]})

(***************************************************************************)
(* The raw input: the CSV files the model reads.                           *)
(***************************************************************************)
BaseRow == [flight_id |-> "AI101", aircraft_id |-> "VT-A",
            origin |-> "A", destination |-> "B",
            scheduled_departure |-> "2024-01-01 10:00",
            actual_departure |-> "",
            scheduled_arrival |-> "2024-01-01 12:00",
            actual_arrival |-> "",
            status |-> "completed", delay_minutes |-> "5",
            fare_usd |-> "200"]

\* Rows for the deduplication and validation stage: a schedule that is
\* valid, one that is reversed, one with an empty departure and one with an
\* unparsable arrival; a fare that is valid, negative, empty or not a number.
Schedules == {<<"2024-01-01 10:00", "2024-01-01 12:00">>,
              <<"2024-01-01 13:00", "2024-01-01 12:00">>,
              <<"", "2024-01-01 12:00">>,
              <<"2024-01-01 13:00", "not-a-date">>}

CleansePool ==
    {[BaseRow EXCEPT !.flight_id = f, !.fare_usd = p,
                     !.scheduled_departure = sch[1],
                     !.scheduled_arrival = sch[2]] :
        f \in {"AI101", "AI102"},
        p \in {"200", "-50", "", "abc"},
        sch \in Schedules}

\* Rows for the delay and duration metrics: completed flights with every
\* combination of actual timestamps, and flights that are not completed.
MetricPool ==
    {[BaseRow EXCEPT !.actual_departure = ad, !.actual_arrival = aa] :
        ad \in {"", "2024-01-01 10:15", "2024-01-01 09:50"},
        aa \in {"", "2024-01-01 12:30"}}
    \cup {[BaseRow EXCEPT !.status = "cancelled"],
          [BaseRow EXCEPT !.status = "diverted"],
          [BaseRow EXCEPT !.status = "cancelled",
                          !.actual_departure = "2024-01-01 10:15",
                          !.actual_arrival = "2024-01-01 12:30"]}

\* Rows for the route ranking.
RoutePool ==
    {[BaseRow EXCEPT !.origin = r[1], !.destination = r[2]] :
        r \in {<<"A", "B">>, <<"C", "D">>, <<"E", "F">>, <<"G", "H">>}}
    \cup {[BaseRow EXCEPT !.status = "cancelled"],
          [BaseRow EXCEPT !.origin = "C", !.destination = "D",
                          !.status = "cancelled"]}

\* Rows for the revenue ranking.
RevenuePool ==
    {[BaseRow EXCEPT !.aircraft_id = a, !.fare_usd = p, !.status = st] :
        a \in {"VT-A", "VT-B", "VT-C"},
        p \in {"100", "200"},
        st \in {"completed", "cancelled"}}

\* Rows for the supplied delay: a delay_minutes cell that agrees with the
\* timestamps, one that does not and an empty one, on completed flights with
\* and without an actual departure, kept or repeated.
DelayPool ==
    {[BaseRow EXCEPT !.flight_id = f, !.delay_minutes = d,
                     !.actual_departure = ad,
                     !.actual_arrival = "2024-01-01 12:30"] :
        f \in {"AI101", "AI102"},
        d \in {"15", "90", ""},
        ad \in {"2024-01-01 10:15", ""}}

FlightIdAt(i) == "AI" \o ToString(100 + i)

\* Every row gets its own flight_id.
WithIds(rows) ==
    [i \in DOMAIN rows |-> [rows[i] EXCEPT !.flight_id = FlightIdAt(i)]]

CleanseInputs == SeqsUpTo(CleansePool, MaxRows)
MetricInputs == {WithIds(s) : s \in SeqsUpTo(MetricPool, MaxMetricRows)}
RouteInputs == {WithIds(s) : s \in SeqsUpTo(RoutePool, MaxRouteRows)}
RevenueInputs == {WithIds(s) : s \in SeqsUpTo(RevenuePool, MaxRevenueRows)}
DelayInputs == SeqsUpTo(DelayPool, MaxDelayRows)

\* Headers: the complete one, and headers with a required column absent.
Headers == {required_cols,
            required_cols \ {"fare_usd"},
            required_cols \ {"delay_minutes", "status"}}

EmptyMetrics == [k \in {} |-> 0]

\* The report emitters before they are run.
NotEmitted == [export_all |-> [result |-> "not run", files |-> <<>>],
               generate_all |-> [result |-> "not run", files |-> <<>>,
                                 matplotlib |-> TRUE]]

EmptyAudit == [duplicates |-> 0, negative_fares |-> 0,
               invalid_schedule |-> 0, missing_critical |-> 0]


(***************************************************************************)
(* pd.read_csv: what the parser makes of the cells of one column.          *)
(***************************************************************************)
NumericText == {"100", "200", "-50"}

ParseNumber(t) ==
    CASE t = "100" -> 100
      [] t = "200" -> 200
      [] t = "-50" -> 0 - 50
      [] OTHER -> NaN

\* A column whose non-empty cells are all numbers becomes numeric; one cell
\* that is not a number leaves the whole column as text (dtype object).
FareDtype(rows) ==
    IF rows # <<>>
       /\ \A i \in DOMAIN rows :
             "fare_usd" \in DOMAIN rows[i]
                => rows[i]["fare_usd"] \in NumericText \cup {""}
    THEN "float64" ELSE "object"

ReadCell(c, t, dtype) ==
    IF c = "fare_usd" /\ dtype = "float64" THEN ParseNumber(t)
    ELSE IF t = "" THEN NA ELSE t

ReadCsv(rows) ==
    [i \in DOMAIN rows |->
        [c \in DOMAIN rows[i] |-> ReadCell(c, rows[i][c], FareDtype(rows))]]

\* The rows of a file with header h.
Project(rows, h) == [i \in DOMAIN rows |-> [c \in h |-> rows[i][c]]]

(***************************************************************************)
(* Initial state: the object after __init__, before run().                 *)
(***************************************************************************)
InitWith(inputs) ==
    /\ csv_columns \in Headers
    /\ csv_rows \in {Project(s, csv_columns) : s \in inputs}
    /\ df_raw = <<>>
    /\ fare_dtype = "object"
    /\ df_clean = <<>>
    /\ audit = EmptyAudit
    /\ metrics = EmptyMetrics
    /\ db = {}
    /\ exported = EmptyMetrics
    /\ pc = "ingest_data"
    /\ steps = <<>>
    /\ result = "running"
    /\ emitted = NotEmitted

Init == InitWith(CleanseInputs)
InitMetrics == InitWith(MetricInputs)
InitRoutes == InitWith(RouteInputs)
InitRevenue == InitWith(RevenueInputs)
InitDelay == InitWith(DelayInputs)

(***************************************************************************)
(* Step 1: ingest_data.  self.df_raw is assigned before the column check.  *)
(***************************************************************************)
MissingColsReversed(cols) == cols \ required_cols

MissingCols(cols) == required_cols \ cols

ingest_data ==
    /\ pc = "ingest_data"
    /\ steps' = Append(steps, "ingest_data")
    /\ df_raw' = ReadCsv(csv_rows)
    /\ fare_dtype' = FareDtype(csv_rows)
    /\ IF MissingCols(csv_columns) # {}
       THEN /\ pc' = "done"
            /\ result' = "False"
       ELSE /\ pc' = "cleanse_data"
            /\ result' = result
    /\ UNCHANGED <<emitted, csv_columns, csv_rows, df_clean, audit, metrics, db,
                   exported>>


(***************************************************************************)
(* Step 2: cleanse_data.                                                   *)
(***************************************************************************)
datetime_cols == {"scheduled_departure", "actual_departure",
                  "scheduled_arrival", "actual_arrival"}

critical_fields == {"flight_id", "aircraft_id", "origin", "destination",
                    "scheduled_departure", "scheduled_arrival", "status",
                    "fare_usd"}

\* df.duplicated(subset=['flight_id'], keep='first'): a row is a duplicate
\* when an earlier row has its flight_id (missing ids count as equal).
Duplicated(df) ==
    [i \in DOMAIN df |->
        \E j \in 1..(i - 1) : df[j]["flight_id"] = df[i]["flight_id"]]

DropDuplicatesKeepLast(df) ==
    Filter(df, [i \in DOMAIN df |->
                  ~\E j \in (i + 1)..Len(df) :
                       df[j]["flight_id"] = df[i]["flight_id"]])

DropDuplicates(df) ==
    Filter(df, [i \in DOMAIN df |-> ~Duplicated(df)[i]])

\* pd.to_datetime(..., errors='coerce'): minutes since 2024-01-01 00:00;
\* an empty or unparsable cell becomes NaT.
ToDatetime(t) ==
    CASE t = "2024-01-01 09:50" -> 590
      [] t = "2024-01-01 10:00" -> 600
      [] t = "2024-01-01 10:15" -> 615
      [] t = "2024-01-01 12:00" -> 720
      [] t = "2024-01-01 12:30" -> 750
      [] t = "2024-01-01 13:00" -> 780
      [] OTHER -> NaT

ConvertDatetimes(df) ==
    [i \in DOMAIN df |->
        [c \in DOMAIN df[i] |->
            IF c \in datetime_cols THEN ToDatetime(df[i][c]) ELSE df[i][c]]]

\* df['fare_usd'] < 0 on a text column compares a str with an int, which
\* raises TypeError; a missing value compares False.
FareCompareRaises(df, dtype) ==
    dtype = "object" /\ \E i \in DOMAIN df : df[i]["fare_usd"] # NA

NegativeFaresWrongSign(df, dtype) ==
    [i \in DOMAIN df |->
        IF dtype = "object" THEN FALSE
        ELSE df[i]["fare_usd"] # NaN /\ df[i]["fare_usd"] > 0]

NegativeFares(df, dtype) ==
    [i \in DOMAIN df |->
        IF dtype = "object" THEN FALSE
        ELSE df[i]["fare_usd"] # NaN /\ df[i]["fare_usd"] < 0]

\* A comparison with NaT taken as an invalid schedule.
InvalidScheduleNaT(df) ==
    [i \in DOMAIN df |->
        \/ df[i]["scheduled_departure"] = NaT
        \/ df[i]["scheduled_arrival"] = NaT
        \/ df[i]["scheduled_departure"] > df[i]["scheduled_arrival"]]

\* A comparison with NaT is False.
InvalidSchedule(df) ==
    [i \in DOMAIN df |->
        /\ df[i]["scheduled_departure"] # NaT
        /\ df[i]["scheduled_arrival"] # NaT
        /\ df[i]["scheduled_departure"] > df[i]["scheduled_arrival"]]

IsNull(c, v, dtype) ==
    IF c \in datetime_cols THEN v = NaT
    ELSE IF c = "fare_usd" /\ dtype = "float64" THEN v = NaN
    ELSE v = NA

MissingCritical(df, dtype) ==
    [i \in DOMAIN df |->
        \E c \in critical_fields : IsNull(c, df[i][c], dtype)]

Keep(df, mask) == Filter(df, [i \in DOMAIN df |-> ~mask[i]])

\* .dt.date of a timestamp.
DateOf(t) == IF t < 1440 THEN "2024-01-01" ELSE "2024-01-02"

WithFlightDate(df) ==
    [i \in DOMAIN df |->
        [c \in DOMAIN df[i] \cup {"flight_date"} |->
            IF c = "flight_date" THEN DateOf(df[i]["scheduled_departure"])
            ELSE df[i][c]]]

\* The three validation rules, each applied to the frame the one before
\* left (lines 125-139), then the derived column (line 147).
FareRule(df, dtype) == Keep(df, NegativeFares(df, dtype))
ScheduleRule(df) == Keep(df, InvalidSchedule(df))
CriticalRule(df, dtype) == Keep(df, MissingCritical(df, dtype))

\* Every mask computed on the frame as it was before the first rule, and
\* applied by position to the frames the rules leave.
ValidateStaleMasks(df, dtype) ==
    WithFlightDate(
        Keep(Keep(Keep(df, NegativeFares(df, dtype)), InvalidSchedule(df)),
             MissingCritical(df, dtype)))

Validate(df, dtype) ==
    WithFlightDate(CriticalRule(ScheduleRule(FareRule(df, dtype)), dtype))

\* The frames cleanse_data goes through, lines 99-147.
Deduplicated(raw) == ConvertDatetimes(DropDuplicates(raw))
AfterFareRule(raw, dtype) == FareRule(Deduplicated(raw), dtype)
\* The schedule rule on the de-duplicated frame, the fare rule skipped.
AfterScheduleRuleOnly(raw, dtype) == ScheduleRule(Deduplicated(raw))
AfterScheduleRule(raw, dtype) == ScheduleRule(AfterFareRule(raw, dtype))
AfterCriticalRule(raw, dtype) ==
    CriticalRule(AfterScheduleRule(raw, dtype), dtype)
Cleansed(raw, dtype) == Validate(Deduplicated(raw), dtype)

cleanse_data ==
    /\ pc = "cleanse_data"
    /\ steps' = Append(steps, "cleanse_data")
    /\ IF FareCompareRaises(Deduplicated(df_raw), fare_dtype)
       THEN \* TypeError at line 126: nothing is assigned
            /\ audit' = [audit EXCEPT
                           !.duplicates = CountTrue(Duplicated(df_raw))]
            /\ df_clean' = df_clean
            /\ pc' = "done"
            /\ result' = "False"
       ELSE /\ audit' =
                [duplicates |-> CountTrue(Duplicated(df_raw)),
                 negative_fares |->
                    CountTrue(NegativeFares(Deduplicated(df_raw), fare_dtype)),
                 invalid_schedule |->
                    CountTrue(InvalidSchedule(
                                 AfterFareRule(df_raw, fare_dtype))),
                 missing_critical |->
                    CountTrue(MissingCritical(
                                 AfterScheduleRule(df_raw, fare_dtype),
                                 fare_dtype))]
            /\ df_clean' = Cleansed(df_raw, fare_dtype)
            /\ IF Len(df_raw) = 0
               THEN \* ZeroDivisionError at line 152, after the assignment
                    /\ pc' = "done"
                    /\ result' = "False"
               ELSE /\ pc' = "calculate_metrics"
                    /\ result' = result
    /\ UNCHANGED <<emitted, csv_columns, csv_rows, df_raw, fare_dtype, metrics, db,
                   exported>>


(***************************************************************************)
(* Arithmetic of the metrics.                                              *)
(***************************************************************************)
\* round(num / den, 2) in hundredths, ties to even; den > 0.
Round2(num, den) ==
    LET n == 100 * num
        q == n \div den
        r == n % den
    IN  IF 2 * r < den THEN q
        ELSE IF 2 * r > den THEN q + 1
        ELSE IF q % 2 = 0 THEN q ELSE q + 1

RECURSIVE Sum(_)
Sum(s) == IF s = <<>> THEN 0 ELSE Head(s) + Sum(Tail(s))

\* The values of s in ascending order.
RECURSIVE Sorted(_)
Sorted(s) ==
    IF s = <<>> THEN <<>>
    ELSE LET m == CHOOSE i \in DOMAIN s : \A j \in DOMAIN s : s[i] <= s[j]
         IN  <<s[m]>> \o Sorted([k \in 1..(Len(s) - 1) |->
                                    IF k < m THEN s[k] ELSE s[k + 1]])

\* Series.mean(): missing values are skipped; the mean of nothing is NaN.
Mean(s) ==
    LET v == SelectSeq(s, LAMBDA x : x # NaN)
    IN  IF v = <<>> THEN NaN ELSE Round2(Sum(v), Len(v))

\* Series.median(): missing values are skipped; the median of nothing is NaN.
Median(s) ==
    LET v == Sorted(SelectSeq(s, LAMBDA x : x # NaN))
        n == Len(v)
    IN  IF n = 0 THEN NaN
        ELSE IF n % 2 = 1 THEN Round2(v[(n + 1) \div 2], 1)
        ELSE Round2(v[n \div 2] + v[n \div 2 + 1], 2)

\* Difference of two timestamps in minutes; NaN when either is NaT.
Minutes(later, earlier) ==
    IF later = NaT \/ earlier = NaT THEN NaN ELSE later - earlier

(***************************************************************************)
(* Grouping and ranking.                                                   *)
(***************************************************************************)
\* The distinct values of s in order of first appearance.
RECURSIVE Uniques(_)
Uniques(s) ==
    IF s = <<>> THEN <<>>
    ELSE LET f == Uniques(SubSeq(s, 1, Len(s) - 1))
         IN  IF s[Len(s)] \in Range(f) THEN f ELSE Append(f, s[Len(s)])

Occurrences(s, k) == Cardinality({i \in DOMAIN s : s[i] = k})

\* sort_values(ascending=False) with the default kind 'quicksort', which is
\* not a stable sort: every arrangement of the keys that is non-increasing
\* in val is a possible outcome.
SortValuesAsc(keys, val) ==
    {p \in [DOMAIN keys -> Range(keys)] :
        /\ \A i, j \in DOMAIN p : i # j => p[i] # p[j]
        /\ \A i, j \in DOMAIN p : i < j => val[p[i]] <= val[p[j]]}

SortValuesDesc(keys, val) ==
    {p \in [DOMAIN keys -> Range(keys)] :
        /\ \A i, j \in DOMAIN p : i # j => p[i] # p[j]
        /\ \A i, j \in DOMAIN p : i < j => val[p[i]] >= val[p[j]]}

Column(df, c) == [i \in DOMAIN df |-> df[i][c]]


(***************************************************************************)
(* Step 3: calculate_metrics.                                              *)
(***************************************************************************)
WithStatus(df, st) == SelectSeq(df, LAMBDA r : r["status"] = st)

\* Every flight that is not completed taken as cancelled.
CancellationRateOfNotCompleted(df) ==
    IF Len(df) > 0
    THEN Round2((Len(df) - Len(WithStatus(df, "completed"))) * 100, Len(df))
    ELSE 0

CancellationRate(df) ==
    IF Len(df) > 0 THEN Round2(Len(WithStatus(df, "cancelled")) * 100, Len(df))
    ELSE 0

CalculatedDelay(df_completed) ==
    [i \in DOMAIN df_completed |->
        Minutes(df_completed[i]["actual_departure"],
                df_completed[i]["scheduled_departure"])]

AverageDelayUnguarded(df_completed) == Mean(CalculatedDelay(df_completed))

AverageDelay(df_completed) ==
    IF Len(df_completed) > 0 THEN Mean(CalculatedDelay(df_completed)) ELSE 0

CalculatedDuration(df_completed) ==
    [i \in DOMAIN df_completed |->
        Minutes(df_completed[i]["actual_arrival"],
                df_completed[i]["actual_departure"])]

MedianDuration(df_completed) ==
    IF Len(df_completed) > 0 THEN Median(CalculatedDuration(df_completed))
    ELSE 0

RouteOf(r) == r["origin"] \o "→" \o r["destination"]

Routes(df) == [i \in DOMAIN df |-> RouteOf(df[i])]

\* value_counts(): the distinct values in order of first appearance, each
\* with its number of occurrences, then sorted by that number, descending.
ValueCountKeys(col) == Uniques(col)

ValueCounts(col) ==
    [k \in Range(col) |-> Occurrences(col, k)]

RouteOrders(df) ==
    SortValuesDesc(ValueCountKeys(Routes(df)), ValueCounts(Routes(df)))

TopRoutes(df, order) ==
    [i \in DOMAIN Head_n(order, TopRoutesN) |->
        [route |-> order[i], count |-> ValueCounts(Routes(df))[order[i]]]]

\* The utilization counted over the completed flights only.
AircraftUtilizationCompleted(df) ==
    ValueCounts(Column(WithStatus(df, "completed"), "aircraft_id"))

AircraftUtilization(df) == ValueCounts(Column(df, "aircraft_id"))

\* groupby('aircraft_id')['fare_usd'].sum()
AircraftRevenue(df) ==
    [a \in Range(Column(df, "aircraft_id")) |->
        Sum(Column(SelectSeq(df, LAMBDA r : r["aircraft_id"] = a),
                   "fare_usd"))]

RevenueOrders(df) ==
    SortValuesDesc(ValueCountKeys(Column(df, "aircraft_id")),
                   AircraftRevenue(df))

TopAircraftByRevenue(df, order) ==
    [i \in DOMAIN Head_n(order, TopAircraftN) |->
        [aircraft |-> order[i],
         revenue |-> Round2(AircraftRevenue(df)[order[i]], 1)]]

Snapshot(df, route_order, revenue_order) ==
    [total_flights |-> Len(df),
     completed_flights |-> Len(WithStatus(df, "completed")),
     cancellation_rate |-> CancellationRate(df),
     average_delay_minutes |-> AverageDelay(WithStatus(df, "completed")),
     median_duration_minutes |-> MedianDuration(WithStatus(df, "completed")),
     top_routes |-> TopRoutes(df, route_order),
     aircraft_utilization |-> AircraftUtilization(df),
     top_aircraft_by_revenue |-> TopAircraftByRevenue(df, revenue_order)]

\* The route column written into the canonical frame itself, no copy taken.
calculate_metrics_in_place ==
    /\ pc = "calculate_metrics"
    /\ steps' = Append(steps, "calculate_metrics")
    /\ \E route_order \in RouteOrders(df_clean) :
       \E revenue_order \in RevenueOrders(df_clean) :
          metrics' = Snapshot(df_clean, route_order, revenue_order)
    /\ df_clean' = [i \in DOMAIN df_clean |->
                      [c \in DOMAIN df_clean[i] \cup {"route"} |->
                          IF c = "route" THEN RouteOf(df_clean[i])
                          ELSE df_clean[i][c]]]
    /\ pc' = "persist_to_mysql"
    /\ UNCHANGED <<emitted, csv_columns, csv_rows, df_raw, fare_dtype, audit,
                   db, exported, result>>

calculate_metrics ==
    /\ pc = "calculate_metrics"
    /\ steps' = Append(steps, "calculate_metrics")
    /\ \E route_order \in RouteOrders(df_clean) :
       \E revenue_order \in RevenueOrders(df_clean) :
          metrics' = Snapshot(df_clean, route_order, revenue_order)
    /\ pc' = "persist_to_mysql"
    /\ UNCHANGED <<emitted, csv_columns, csv_rows, df_raw, fare_dtype, df_clean, audit,
                   db, exported, result>>

(***************************************************************************)
(* Step 4: persist_to_mysql.                                               *)
(***************************************************************************)
\* strftime('%Y-%m-%d %H:%M:%S'); a missing timestamp is written as None.
Strftime(t) ==
    CASE t = 590 -> "2024-01-01 09:50:00"
      [] t = 600 -> "2024-01-01 10:00:00"
      [] t = 615 -> "2024-01-01 10:15:00"
      [] t = 720 -> "2024-01-01 12:00:00"
      [] t = 750 -> "2024-01-01 12:30:00"
      [] t = 780 -> "2024-01-01 13:00:00"
      [] OTHER -> "None"

\* The supplied delay_minutes written to the table.
DataTupleWithDelay(r) ==
    [flight_id |-> r["flight_id"],
     aircraft_id |-> r["aircraft_id"],
     origin |-> r["origin"],
     destination |-> r["destination"],
     scheduled_departure |-> Strftime(r["scheduled_departure"]),
     actual_departure |-> Strftime(r["actual_departure"]),
     scheduled_arrival |-> Strftime(r["scheduled_arrival"]),
     actual_arrival |-> Strftime(r["actual_arrival"]),
     status |-> r["status"],
     delay_minutes |-> r["delay_minutes"],
     fare_usd |-> r["fare_usd"],
     flight_date |-> r["flight_date"]]

DataTuple(r) ==
    [flight_id |-> r["flight_id"],
     aircraft_id |-> r["aircraft_id"],
     origin |-> r["origin"],
     destination |-> r["destination"],
     scheduled_departure |-> Strftime(r["scheduled_departure"]),
     actual_departure |-> Strftime(r["actual_departure"]),
     scheduled_arrival |-> Strftime(r["scheduled_arrival"]),
     actual_arrival |-> Strftime(r["actual_arrival"]),
     status |-> r["status"],
     delay_minutes |-> "None",
     fare_usd |-> r["fare_usd"],
     flight_date |-> r["flight_date"]]

DataTuples(df) == [i \in DOMAIN df |-> DataTuple(df[i])]

\* INSERT IGNORE, row by row: a row whose flight_id is stored is skipped.
RECURSIVE InsertIgnore(_, _)
InsertIgnore(table, tuples) ==
    IF tuples = <<>> THEN table
    ELSE InsertIgnore(
            IF \E t \in table : t.flight_id = Head(tuples).flight_id
            THEN table ELSE table \cup {Head(tuples)},
            Tail(tuples))

\* The database error swallowed: the run goes on to export_metrics.
persist_to_mysql_swallows_error ==
    /\ pc = "persist_to_mysql"
    /\ steps' = Append(steps, "persist_to_mysql")
    /\ \E mysql_ok \in BOOLEAN :
          db' = IF mysql_ok THEN InsertIgnore(db, DataTuples(df_clean)) ELSE db
    /\ pc' = "export_metrics"
    /\ UNCHANGED <<emitted, csv_columns, csv_rows, df_raw, fare_dtype, df_clean, audit,
                   metrics, exported, result>>

persist_to_mysql ==
    /\ pc = "persist_to_mysql"
    /\ steps' = Append(steps, "persist_to_mysql")
    /\ \E mysql_ok \in BOOLEAN :
          IF mysql_ok
          THEN /\ db' = InsertIgnore(db, DataTuples(df_clean))
               /\ pc' = "export_metrics"
               /\ result' = result
          ELSE \* mysql.connector.Error: rollback, re-raise
               /\ db' = db
               /\ pc' = "done"
               /\ result' = "False"
    /\ UNCHANGED <<emitted, csv_columns, csv_rows, df_raw, fare_dtype, df_clean, audit,
                   metrics, exported>>

(***************************************************************************)
(* Step 5: export_metrics.                                                 *)
(***************************************************************************)
export_metrics ==
    /\ pc = "export_metrics"
    /\ steps' = Append(steps, "export_metrics")
    /\ \E write_ok \in BOOLEAN :
          IF write_ok
          THEN /\ exported' = metrics
               /\ result' = "True"
          ELSE /\ exported' = exported
               /\ result' = "False"
    /\ pc' = "done"
    /\ UNCHANGED <<emitted, csv_columns, csv_rows, df_raw, fare_dtype, df_clean, audit,
                   metrics, db>>

(***************************************************************************)
(* run(): the steps in sequence; the first exception ends the run.         *)
(***************************************************************************)
(***************************************************************************)
(* The report emitters (src/scripts): each reads output/metrics.json and   *)
(* runs its steps in sequence; the first step that raises ends it with     *)
(* False.                                                                  *)
(***************************************************************************)
\* The JSON type json.dump gives the value the pipeline stores under key k.
JsonType(k) ==
    CASE k \in {"top_routes", "top_aircraft_by_revenue"} -> "array"
      [] k = "aircraft_utilization" -> "object"
      [] OTHER -> "number"

\* The steps of an emitter: the keys a step subscripts, and those of them
\* on which it calls str.split.
csv_steps ==
    <<[name |-> "export_summary_metrics",
       keys |-> {"unique_flights", "completed_flights", "cancellation_rate",
                 "average_delay", "median_duration"},
       split |-> {}],
      [name |-> "export_top_routes",
       keys |-> {"top_routes"}, split |-> {"top_routes"}],
      [name |-> "export_aircraft_utilization",
       keys |-> {"aircraft_utilization", "unique_flights"},
       split |-> {"aircraft_utilization"}],
      [name |-> "export_top_revenue_aircraft",
       keys |-> {"top_aircraft_by_revenue"},
       split |-> {"top_aircraft_by_revenue"}]>>

plot_steps ==
    <<[name |-> "plot_flight_status_distribution",
       keys |-> {"completed_flights", "unique_flights"}, split |-> {}],
      [name |-> "plot_top_routes",
       keys |-> {"top_routes"}, split |-> {"top_routes"}],
      [name |-> "plot_aircraft_utilization",
       keys |-> {"aircraft_utilization"},
       split |-> {"aircraft_utilization"}],
      [name |-> "plot_top_revenue_aircraft",
       keys |-> {"top_aircraft_by_revenue"},
       split |-> {"top_aircraft_by_revenue"}],
      [name |-> "plot_key_metrics_summary",
       keys |-> {"unique_flights", "cancellation_rate", "average_delay",
                 "median_duration"},
       split |-> {}]>>

\* A step raises KeyError on a key the snapshot lacks, AttributeError on
\* .split of a value that is not a string.
StepRaises(step, m) ==
    \/ \E k \in step.keys : k \notin DOMAIN m
    \/ \E k \in step.split : JsonType(k) # "string"

\* The files created: one per step, up to the first step that raises.
RECURSIVE FilesCreated(_, _)
FilesCreated(emitter_steps, m) ==
    IF emitter_steps = <<>> \/ StepRaises(Head(emitter_steps), m) THEN <<>>
    ELSE <<Head(emitter_steps).name>> \o FilesCreated(Tail(emitter_steps), m)

\* True when every step returned its file, False when one raised.
Emit(emitter_steps, m) ==
    [result |-> IF Len(FilesCreated(emitter_steps, m)) = Len(emitter_steps)
                THEN "True" ELSE "False",
     files |-> FilesCreated(emitter_steps, m)]

\* MetricsCSVExporter.export_all, run on the metrics.json a pipeline run
\* wrote (load_metrics finds the file).
export_all ==
    /\ pc = "done"
    /\ exported # EmptyMetrics
    /\ emitted.export_all.result = "not run"
    /\ emitted' = [emitted EXCEPT !.export_all = Emit(csv_steps, exported)]
    /\ UNCHANGED <<csv_columns, csv_rows, df_raw, fare_dtype, df_clean, audit,
                   metrics, db, exported, pc, steps, result>>

\* MetricsVisualizer.generate_all, run on the metrics.json a pipeline run
\* wrote; without matplotlib it returns False before it reads the file.
generate_all ==
    /\ pc = "done"
    /\ exported # EmptyMetrics
    /\ emitted.generate_all.result = "not run"
    /\ \E has_matplotlib \in BOOLEAN :
          emitted' = [emitted EXCEPT !.generate_all =
              IF has_matplotlib
              THEN [result |-> Emit(plot_steps, exported).result,
                    files |-> Emit(plot_steps, exported).files,
                    matplotlib |-> TRUE]
              ELSE [result |-> "False", files |-> <<>>,
                    matplotlib |-> FALSE]]
    /\ UNCHANGED <<csv_columns, csv_rows, df_raw, fare_dtype, df_clean, audit,
                   metrics, db, exported, pc, steps, result>>

Next ==
    \/ ingest_data
    \/ cleanse_data
    \/ calculate_metrics
    \/ persist_to_mysql
    \/ export_metrics
    \/ export_all
    \/ generate_all

Spec == Init /\ [][Next]_vars
SpecMetrics == InitMetrics /\ [][Next]_vars
SpecRoutes == InitRoutes /\ [][Next]_vars
SpecRevenue == InitRevenue /\ [][Next]_vars
SpecDelay == InitDelay /\ [][Next]_vars


(***************************************************************************)
(* Properties.                                                             *)
(***************************************************************************)
Ran(step) == step \in Range(steps)

\* cleanse_data returned (it did not raise).
Cleansed_ok == Ran("cleanse_data") /\ ~(pc = "done" /\ Len(steps) = 2)

\* A raw row, as text, passes every validation rule.
RowPasses(r) ==
    /\ r["fare_usd"] \in {"100", "200"}
    /\ ToDatetime(r["scheduled_departure"]) # NaT
    /\ ToDatetime(r["scheduled_arrival"]) # NaT
    /\ ToDatetime(r["scheduled_departure"]) <= ToDatetime(r["scheduled_arrival"])
    /\ \A c \in {"flight_id", "aircraft_id", "origin", "destination", "status"} :
          r[c] # ""

FirstWithKey(rows, i) ==
    \A j \in 1..(i - 1) : rows[j]["flight_id"] # rows[i]["flight_id"]

\* C1: deduplication runs before validation: when the first raw row with a
\* flight_id fails a validation rule, the canonical set holds no record with
\* that flight_id, whatever the later rows with that flight_id are.
C1_DedupBeforeValidation ==
    (Ran("cleanse_data") /\ required_cols \subseteq csv_columns) =>
        \A i \in DOMAIN csv_rows :
            (FirstWithKey(csv_rows, i) /\ ~RowPasses(csv_rows[i])) =>
                \A k \in DOMAIN df_clean :
                    df_clean[k]["flight_id"] # csv_rows[i]["flight_id"]

\* C1 witness: cleanse_data returned on an input whose first row with a key
\* has a negative fare and whose later row with that key passes every rule.
C1_Witness ==
    /\ Cleansed_ok
    /\ \E i, j \in DOMAIN csv_rows :
          /\ i < j
          /\ FirstWithKey(csv_rows, i)
          /\ csv_rows[i]["flight_id"] = csv_rows[j]["flight_id"]
          /\ csv_rows[i]["fare_usd"] = "-50"
          /\ RowPasses(csv_rows[j])
          /\ \A k \in DOMAIN df_clean :
                df_clean[k]["flight_id"] # csv_rows[i]["flight_id"]

\* C2: every record of the canonical set has a flight_id that occurs once in
\* the set, a fare >= 0, a scheduled departure not after the scheduled
\* arrival, and no critical field missing.
C2_CanonicalInvariants ==
    Cleansed_ok =>
        \A i \in DOMAIN df_clean :
            /\ \A j \in DOMAIN df_clean :
                  df_clean[j]["flight_id"] = df_clean[i]["flight_id"] => j = i
            /\ df_clean[i]["fare_usd"] # NaN
            /\ df_clean[i]["fare_usd"] >= 0
            /\ df_clean[i]["scheduled_departure"] # NaT
            /\ df_clean[i]["scheduled_arrival"] # NaT
            /\ df_clean[i]["scheduled_departure"]
                  <= df_clean[i]["scheduled_arrival"]
            /\ \A c \in {"flight_id", "aircraft_id", "origin", "destination",
                         "status"} : df_clean[i][c] # NA

\* C2 witness: cleanse_data kept some rows and removed others.
C2_Witness ==
    /\ Cleansed_ok
    /\ Len(df_clean) > 0
    /\ Len(df_clean) < Len(df_raw)
    /\ audit.negative_fares > 0

\* C3: with every required column present, cleanse_data and
\* calculate_metrics complete without raising: a run that has ended has
\* been through calculate_metrics.
C3_CoreNeverRaises ==
    (required_cols \subseteq csv_columns /\ pc = "done") =>
        Ran("calculate_metrics")

\* C4: when a required column is absent, ingest_data raises and run()
\* returns False; no later step runs, nothing is cleansed, computed,
\* persisted or exported.
C4_SchemaFailureStopsRun ==
    (~(required_cols \subseteq csv_columns) /\ steps # <<>>) =>
        /\ steps = <<"ingest_data">>
        /\ pc = "done"
        /\ result = "False"
        /\ df_clean = <<>>
        /\ metrics = EmptyMetrics
        /\ db = {}
        /\ exported = EmptyMetrics

\* C4 witness: a run on a file without the fare_usd column has ended.
C4_Witness ==
    /\ "fare_usd" \notin csv_columns
    /\ Len(csv_rows) > 0
    /\ pc = "done"
    /\ result = "False"


\* The completed canonical records that satisfy has(r).
CompletedWith(has(_)) ==
    SelectSeq(df_clean, LAMBDA r : r["status"] = "completed" /\ has(r))

HasDeparture(r) == r["actual_departure"] # NaT
HasBothActuals(r) == r["actual_departure"] # NaT /\ r["actual_arrival"] # NaT

DelaysOfComputable ==
    [i \in DOMAIN CompletedWith(HasDeparture) |->
        CompletedWith(HasDeparture)[i]["actual_departure"]
            - CompletedWith(HasDeparture)[i]["scheduled_departure"]]

DurationsOfComputable ==
    [i \in DOMAIN CompletedWith(HasBothActuals) |->
        CompletedWith(HasBothActuals)[i]["actual_arrival"]
            - CompletedWith(HasBothActuals)[i]["actual_departure"]]

\* C5: average_delay_minutes is the mean delay over the completed records
\* with an actual departure, rounded to 2 decimals, and 0.0 when there is no
\* such record, also when completed records exist but none has an actual
\* departure.
C5_AverageDelay ==
    Ran("calculate_metrics") =>
        metrics.average_delay_minutes =
            IF DelaysOfComputable = <<>> THEN 0
            ELSE Round2(Sum(DelaysOfComputable), Len(DelaysOfComputable))

\* One completed flight scheduled 10:00, departed 10:15, arrival missing.
ScenarioDepartedNotArrived ==
    /\ Len(df_clean) = 1
    /\ df_clean[1]["status"] = "completed"
    /\ df_clean[1]["scheduled_departure"] = 600
    /\ df_clean[1]["actual_departure"] = 615
    /\ df_clean[1]["actual_arrival"] = NaT

\* C6: median_duration_minutes is the median duration over the completed
\* records with both actual timestamps and 0.0 when there is none; for one
\* completed flight scheduled 10:00, departed 10:15, arrival missing, the
\* average delay is 15.0 and the median duration 0.0.
C6_MedianDuration ==
    Ran("calculate_metrics") =>
        /\ metrics.median_duration_minutes =
              IF DurationsOfComputable = <<>> THEN 0
              ELSE Median(DurationsOfComputable)
        /\ ScenarioDepartedNotArrived =>
              /\ metrics.average_delay_minutes = 1500
              /\ metrics.median_duration_minutes = 0

PositionIn(keys, k) == CHOOSE i \in DOMAIN keys : keys[i] = k

\* The keys by val descending, equal val by first appearance.
FirstSeenOrder(keys, val) ==
    CHOOSE p \in SortValuesDesc(keys, val) :
        \A i, j \in DOMAIN p :
            (i < j /\ val[p[i]] = val[p[j]]) =>
                PositionIn(keys, p[i]) < PositionIn(keys, p[j])

\* C8: top_aircraft_by_revenue lists at most 2 aircraft with their summed
\* fares, by revenue descending, equal revenue by first appearance in the
\* canonical set.
C8_TopAircraftFirstSeen ==
    Ran("calculate_metrics") =>
        metrics.top_aircraft_by_revenue =
            TopAircraftByRevenue(
                df_clean,
                FirstSeenOrder(ValueCountKeys(Column(df_clean, "aircraft_id")),
                               AircraftRevenue(df_clean)))

\* C9: top_routes lists the 3 routes with the highest counts, descending,
\* equal counts by first appearance in the canonical set.
C9_TopRoutesFirstSeen ==
    Ran("calculate_metrics") =>
        metrics.top_routes =
            TopRoutes(df_clean,
                      FirstSeenOrder(ValueCountKeys(Routes(df_clean)),
                                     ValueCounts(Routes(df_clean))))

DistinctRoutes == {RouteOf(df_clean[i]) : i \in DOMAIN df_clean}

RouteCount(rt) ==
    Cardinality({i \in DOMAIN df_clean : RouteOf(df_clean[i]) = rt})

Listed == {metrics.top_routes[i].route : i \in DOMAIN metrics.top_routes}

\* C10: top_routes has at most 3 entries and at most one per distinct route,
\* its counts do not increase, no route left out has a count greater than
\* that of a listed route; routes A->B twice and C->D once give
\* [{A->B, 2}, {C->D, 1}].
C10_TopRoutesRanking ==
    Ran("calculate_metrics") =>
        /\ Len(metrics.top_routes) <= 3
        /\ Len(metrics.top_routes) <= Cardinality(DistinctRoutes)
        /\ \A i, j \in DOMAIN metrics.top_routes :
              i < j => metrics.top_routes[i].count >= metrics.top_routes[j].count
        /\ \A rt \in DistinctRoutes \ Listed :
              \A i \in DOMAIN metrics.top_routes :
                 RouteCount(rt) <= metrics.top_routes[i].count
        /\ (/\ Len(df_clean) = 3
            /\ DistinctRoutes = {"A→B", "C→D"}
            /\ RouteCount("A→B") = 2)
              => metrics.top_routes = <<[route |-> "A→B", count |-> 2],
                                        [route |-> "C→D", count |-> 1]>>

\* C10 witness: more than 3 distinct routes, 3 of them listed, one left out.
C10_Witness ==
    /\ Ran("calculate_metrics")
    /\ Cardinality(DistinctRoutes) > 3
    /\ Len(metrics.top_routes) = 3
    /\ DistinctRoutes \ Listed # {}


\* The number of canonical records with status st.
StatusCount(st) ==
    Cardinality({i \in DOMAIN df_clean : df_clean[i]["status"] = st})

\* C11: cancellation_rate is 100 * cancelled / total rounded to 2 decimals,
\* 0.0 for no flights; a record that is neither completed nor cancelled
\* counts in total_flights only, so completed + cancelled <= total.
C11_CancellationRate ==
    Ran("calculate_metrics") =>
        /\ metrics.total_flights = Len(df_clean)
        /\ metrics.completed_flights = StatusCount("completed")
        /\ metrics.cancellation_rate =
              IF Len(df_clean) = 0 THEN 0
              ELSE Round2(100 * StatusCount("cancelled"), Len(df_clean))
        /\ metrics.completed_flights + StatusCount("cancelled")
              <= metrics.total_flights

\* C11 witness: a completed, a cancelled and a diverted flight: 33.33 %.
C11_Witness ==
    /\ Ran("calculate_metrics")
    /\ StatusCount("completed") = 1
    /\ StatusCount("cancelled") = 1
    /\ StatusCount("diverted") = 1
    /\ metrics.cancellation_rate = 3333
    /\ metrics.completed_flights + 1 < metrics.total_flights

AircraftPresent == {df_clean[i]["aircraft_id"] : i \in DOMAIN df_clean}

RECURSIVE SumOver(_, _)
SumOver(f, S) ==
    IF S = {} THEN 0
    ELSE LET x == CHOOSE y \in S : TRUE IN f[x] + SumOver(f, S \ {x})

\* C12: aircraft_utilization has exactly one entry for every aircraft_id of
\* the canonical set, and its values add up to total_flights.
C12_UtilizationTotals ==
    Ran("calculate_metrics") =>
        /\ DOMAIN metrics.aircraft_utilization = AircraftPresent
        /\ \A a \in AircraftPresent : metrics.aircraft_utilization[a] >= 1
        /\ SumOver(metrics.aircraft_utilization, AircraftPresent)
              = metrics.total_flights

\* C12 witness: more aircraft than the revenue ranking lists, flights of
\* more than one status.
C12_Witness ==
    /\ Ran("calculate_metrics")
    /\ Cardinality(AircraftPresent) > TopAircraftN
    /\ StatusCount("cancelled") > 0
    /\ Cardinality(DOMAIN metrics.aircraft_utilization) = 3


\* The raw rows that survive deduplication: the first row of each flight_id.
Firsts == {i \in DOMAIN csv_rows : FirstWithKey(csv_rows, i)}

\* What a raw row, as text, fails.
FailsFare(r) == r["fare_usd"] = "-50"

FailsSchedule(r) ==
    /\ ToDatetime(r["scheduled_departure"]) # NaT
    /\ ToDatetime(r["scheduled_arrival"]) # NaT
    /\ ToDatetime(r["scheduled_departure"]) > ToDatetime(r["scheduled_arrival"])

FailsCritical(r) ==
    \/ \E c \in {"flight_id", "aircraft_id", "origin", "destination",
                 "status", "fare_usd"} : r[c] = ""
    \/ ToDatetime(r["scheduled_departure"]) = NaT
    \/ ToDatetime(r["scheduled_arrival"]) = NaT

\* The rule that removes a row: the first one, in the fixed order, it fails.
FirstFailing(r) ==
    IF FailsFare(r) THEN "negative_fares"
    ELSE IF FailsSchedule(r) THEN "invalid_schedule"
    ELSE IF FailsCritical(r) THEN "missing_critical"
    ELSE "none"

RemovedBy(rule) ==
    Cardinality({i \in Firsts : FirstFailing(csv_rows[i]) = rule})

\* C13: canonical size <= deduplicated size <= raw size; raw minus
\* deduplicated is the reported duplicate count, deduplicated minus canonical
\* is the sum of the three rule counts, and each removed row is counted by
\* the first rule it fails only.
C13_SizesAndCounts ==
    Cleansed_ok =>
        /\ Len(df_clean) <= Cardinality(Firsts)
        /\ Cardinality(Firsts) <= Len(df_raw)
        /\ Len(df_raw) = Len(csv_rows)
        /\ Len(df_raw) - Cardinality(Firsts) = audit.duplicates
        /\ audit.negative_fares = RemovedBy("negative_fares")
        /\ audit.invalid_schedule = RemovedBy("invalid_schedule")
        /\ audit.missing_critical = RemovedBy("missing_critical")
        /\ Cardinality(Firsts) - Len(df_clean) =
              audit.negative_fares + audit.invalid_schedule
              + audit.missing_critical

\* C13 witness: a row with a negative fare and a missing scheduled departure
\* is counted once, as a negative fare; the other row is kept.
C13_Witness ==
    /\ Cleansed_ok
    /\ \E i \in Firsts :
          /\ FailsFare(csv_rows[i])
          /\ FailsCritical(csv_rows[i])
    /\ audit.negative_fares = 1
    /\ audit.missing_critical = 0
    /\ audit.invalid_schedule = 0
    /\ Len(df_clean) = 1


\* The stage applied to a canonical set: the deduplication (line 105) and
\* the rules (lines 125-147); pd.to_datetime leaves a datetime column as
\* it is.
Reapplied(df, dtype) == Validate(DropDuplicates(df), dtype)

\* C14: the deduplication and validation stage is idempotent: applied to the
\* canonical set it produced, it finds no duplicate, removes no row and
\* returns the same records in the same order.
C14_Idempotent ==
    Cleansed_ok =>
        /\ CountTrue(Duplicated(df_clean)) = 0
        /\ ~FareCompareRaises(DropDuplicates(df_clean), fare_dtype)
        /\ Reapplied(df_clean, fare_dtype) = df_clean

\* C14 witness: the first application removed a row and kept another; the
\* second returns the kept row.
C14_Witness ==
    /\ Cleansed_ok
    /\ Cardinality(Firsts) = 2
    /\ Len(df_clean) = 1
    /\ Reapplied(df_clean, fare_dtype) = df_clean


\* The order in which run() calls the steps, lines 382-397.
run_order == <<"ingest_data", "cleanse_data", "calculate_metrics",
               "persist_to_mysql", "export_metrics">>

\* C15: the steps run in the fixed order, each after the one before it
\* returned; a step that raises ends the run with False and no later step
\* runs; True is returned only after all five steps, with every canonical
\* record persisted before the metrics were exported.
C15_RunOrder ==
    /\ Len(steps) <= Len(run_order)
    /\ steps = SubSeq(run_order, 1, Len(steps))
    /\ pc # "done" => (pc = run_order[Len(steps) + 1] /\ result = "running")
    /\ pc = "done" => result \in {"True", "False"}
    /\ (pc = "done" /\ Len(steps) < Len(run_order)) =>
          (result = "False" /\ exported = EmptyMetrics)
    /\ ~Ran("persist_to_mysql") => db = {}
    /\ ~Ran("calculate_metrics") => metrics = EmptyMetrics
    /\ exported # EmptyMetrics => result = "True"
    /\ result = "True" =>
          /\ steps = run_order
          /\ exported = metrics
          /\ db = InsertIgnore({}, DataTuples(df_clean))

\* C15 witness: persistence failed on a non-empty canonical set: four steps
\* ran, nothing was exported, the run returned False.
C15_Witness ==
    /\ pc = "done"
    /\ steps = SubSeq(run_order, 1, 4)
    /\ Len(df_clean) > 0
    /\ metrics # EmptyMetrics
    /\ exported = EmptyMetrics
    /\ result = "False"


\* C16: no stage changes the structure handed to it: a step of
\* cleanse_data leaves df_raw (rows, columns, values, column type) as it
\* was, and a step of calculate_metrics or of persist_to_mysql leaves
\* df_clean as it was.
C16_InputsNotMutated ==
    [][/\ pc = "cleanse_data" => (df_raw' = df_raw /\ fare_dtype' = fare_dtype)
       /\ pc \in {"calculate_metrics", "persist_to_mysql"} =>
             df_clean' = df_clean]_vars

\* C16 witness: the three stages ran on a non-empty canonical set, and the
\* raw frame is still what ingest_data read, the canonical frame still what
\* cleanse_data produced.
C16_Witness ==
    /\ Ran("persist_to_mysql")
    /\ Len(df_clean) > 0
    /\ Len(df_raw) > Len(df_clean)
    /\ df_raw = ReadCsv(csv_rows)
    /\ df_clean = Cleansed(df_raw, fare_dtype)
    /\ db # {}


\* The deduplicated rows with a fare >= 0 and a scheduled timestamp that is
\* empty or does not parse.
MissingScheduleRows ==
    {i \in Firsts :
        /\ csv_rows[i]["fare_usd"] = "200"
        /\ \/ ToDatetime(csv_rows[i]["scheduled_departure"]) = NaT
           \/ ToDatetime(csv_rows[i]["scheduled_arrival"]) = NaT}

\* C17: a deduplicated row with a fare >= 0 and a missing or unparsable
\* scheduled timestamp is not removed by the schedule rule (it is in the
\* frame that rule leaves and is not counted by it); the critical-field rule
\* removes it and counts it.
C17_MissingScheduleIsCritical ==
    Cleansed_ok =>
        /\ \A i \in MissingScheduleRows :
              /\ \E k \in DOMAIN AfterScheduleRule(df_raw, fare_dtype) :
                    AfterScheduleRule(df_raw, fare_dtype)[k]["flight_id"]
                        = csv_rows[i]["flight_id"]
              /\ \A k \in DOMAIN df_clean :
                    df_clean[k]["flight_id"] # csv_rows[i]["flight_id"]
        /\ audit.invalid_schedule <=
              Cardinality(Firsts \ MissingScheduleRows)
                  - audit.negative_fares
        /\ audit.missing_critical >= Cardinality(MissingScheduleRows)

\* C17 witness: a row with an empty scheduled departure and a row with an
\* unparsable scheduled arrival, both with a fare of 200: the schedule rule
\* counts nothing, the critical-field rule counts both.
C17_Witness ==
    /\ Cleansed_ok
    /\ \E i, j \in MissingScheduleRows :
          /\ csv_rows[i]["scheduled_departure"] = ""
          /\ csv_rows[j]["scheduled_arrival"] = "not-a-date"
    /\ audit.invalid_schedule = 0
    /\ audit.missing_critical = 2
    /\ df_clean = <<>>


\* The raw input with every delay_minutes cell emptied, and the canonical
\* set cleanse_data makes of it.
Scrubbed ==
    [i \in DOMAIN csv_rows |->
        [c \in DOMAIN csv_rows[i] |->
            IF c = "delay_minutes" THEN "" ELSE csv_rows[i][c]]]

ScrubbedClean == Cleansed(ReadCsv(Scrubbed), FareDtype(Scrubbed))

Persisted == Ran("persist_to_mysql") /\ ~(pc = "done" /\ Len(steps) = 4)

\* C18: the supplied delay_minutes values influence no output: the retained
\* flight_ids, the metrics snapshot and the tuples handed to the table are
\* those of the same input with every delay_minutes cell emptied, and every
\* tuple carries delay_minutes as absent.
C18_DelayMinutesIgnored ==
    /\ Cleansed_ok =>
          Column(df_clean, "flight_id") = Column(ScrubbedClean, "flight_id")
    /\ Ran("calculate_metrics") =>
          \E route_order \in RouteOrders(ScrubbedClean) :
          \E revenue_order \in RevenueOrders(ScrubbedClean) :
              metrics = Snapshot(ScrubbedClean, route_order, revenue_order)
    /\ Persisted => db = InsertIgnore({}, DataTuples(ScrubbedClean))
    /\ \A t \in db : t.delay_minutes = "None"

\* C18 witness: two completed flights that left 15 minutes late, supplied
\* with delays of 90 and of nothing: both are kept, the average delay is
\* 15.0 and both tuples are in the table.
C18_Witness ==
    /\ result = "True"
    /\ Len(csv_rows) = 2
    /\ csv_rows[1]["delay_minutes"] = "90"
    /\ csv_rows[2]["delay_minutes"] = ""
    /\ Len(df_clean) = 2
    /\ metrics.completed_flights = 2
    /\ metrics.average_delay_minutes = 1500
    /\ Cardinality(db) = 2


\* C19: a snapshot written by export_metrics is consumable by the report
\* emitters: run on it, export_all completes its four export steps and
\* returns True, and generate_all (with matplotlib installed) completes its
\* five plots and returns True.
C19_EmittersConsumeSnapshot ==
    result = "True" =>
        /\ emitted.export_all.result # "not run" =>
              /\ emitted.export_all.result = "True"
              /\ Len(emitted.export_all.files) = Len(csv_steps)
        /\ (emitted.generate_all.result # "not run"
               /\ emitted.generate_all.matplotlib) =>
              /\ emitted.generate_all.result = "True"
              /\ Len(emitted.generate_all.files) = Len(plot_steps)

====
